---------------------------- MODULE Spec2Model ----------------------------
(***************************************************************************)
(* The v2.2 score-prediction pipeline of src/src/utils/v2PredictionEngine.js *)
(* (calculateV2Prediction and its stage functions) as a state machine.     *)
(*                                                                         *)
(* Numbers.  Every score quantity (ppg, pointsAllowed, running scores,     *)
(* stage deltas) is held in thousandths of a point: 3.85 is 3850.  All the *)
(* constants of the engine are exact in thousandths, and the inputs are    *)
(* drawn from tenths of a point, so the arithmetic below is the exact      *)
(* decimal arithmetic of the source; the binary rounding error of IEEE     *)
(* doubles (at most ~1e-13 here) is not modelled.  fieldGoalPct is held in *)
(* thousandths too (0.48 is 480).  Ranks, streaks, wins, losses, days and  *)
(* the rounded results are plain integers.                                 *)
(*                                                                         *)
(* JavaScript values.  A property that is absent reads as `undefined`; a   *)
(* property of the wrong type is modelled by `aString`.  Truthiness,       *)
(* `||` defaults and comparisons with undefined (always false) are         *)
(* modelled by the operators Truthy, OrElse, Ge and Gt.                    *)
(***************************************************************************)
EXTENDS Integers, Sequences, FiniteSets, TLC

VARIABLES
    team1, team2, gameContext,      \* the arguments of the call
    pc,                             \* position in calculateV2Prediction
    calculations,                   \* the stage constants (the breakdown)
    team1Score, team2Score,         \* the running scores
    extremeMismatch,                \* what calculateExtremeMismatch returned
    preliminaryMargin,              \* local of line 91
    marginBeforeCloseBonus,         \* local of line 143
    firstHalf,                      \* local of line 165
    result,                         \* the value returned (NoResult: none)
    error,                          \* message of the error caught at line 200
    thrown,                         \* message of the error raised ("" : none)
    console,                        \* what console.error has printed
    stages,                         \* stages executed by the current call
    calls, firstOutcome             \* number of the call, outcome of call 1

vars == <<team1, team2, gameContext, pc, calculations, team1Score, team2Score,
          extremeMismatch, preliminaryMargin, marginBeforeCloseBonus, firstHalf,
          result, error, thrown, console, stages, calls, firstOutcome>>

-----------------------------------------------------------------------------
(* JavaScript values and operators *)

undefined == -999999
aString == -888888
noLabel == "<undefined>"
NoRecord == <<>>

IsNumber(x) == x # undefined /\ x # aString
Truthy(x) == x # undefined /\ x # 0
OrElse(x, d) == IF Truthy(x) THEN x ELSE d
Ge(x, n) == x # undefined /\ x >= n
Gt(x, n) == x # undefined /\ x > n

Abs(x) == IF x < 0 THEN -x ELSE x
Max(a, b) == IF a >= b THEN a ELSE b
Min(a, b) == IF a <= b THEN a ELSE b

\* one point, in the unit of the running scores
Pt == 1000

\* Math.round on a value in thousandths: nearest integer, halves towards +infinity
MathRound(x) == (x + 500) \div 1000

\* Math.round(full * pct) with full an integer and pct in hundredths
MathRoundPct(full, pct) == (full * pct + 50) \div 100

\* wins / (wins + losses) as <<numerator, denominator>>; 0/0 is NaN
WinRate(record) == IF record = NoRecord THEN <<1, 2>> ELSE <<record[1], record[1] + record[2]>>
RateGe(r, n, d) == r[2] > 0 /\ r[1] * d >= n * r[2]
RateLt(r, n, d) == r[2] > 0 /\ r[1] * d < n * r[2]
RateIsZero(r) == r[2] > 0 /\ r[1] = 0

-----------------------------------------------------------------------------
(* Validation, lines 23-51: the message of the first failing check, "" if none *)

\* a range check that forgets the upper bound of team2's defense rank
RangeErrorTeam2Unbounded(t1, t2) ==
    IF t1.ppg < 0 \/ t1.ppg > 150 * Pt \/ t2.ppg < 0 \/ t2.ppg > 150 * Pt
        THEN "PPG values must be between 0 and 150"
    ELSE IF t1.defenseRank < 1 \/ t1.defenseRank > 363 \/ t2.defenseRank < 1
        THEN "Defense rank must be between 1 and 363"
    ELSE ""

\* lines 44-51, the numeric ranges
RangeError(t1, t2) ==
    IF t1.ppg < 0 \/ t1.ppg > 150 * Pt \/ t2.ppg < 0 \/ t2.ppg > 150 * Pt
        THEN "PPG values must be between 0 and 150"
    ELSE IF t1.defenseRank < 1 \/ t1.defenseRank > 363 \/ t2.defenseRank < 1 \/ t2.defenseRank > 363
        THEN "Defense rank must be between 1 and 363"
    ELSE ""

ValidationError(t1, t2) ==
    IF ~t1.present \/ ~t2.present
        THEN "Both teams are required for v2.2 prediction"
    ELSE IF t1.team \in {noLabel, ""} \/ t2.team \in {noLabel, ""}
        THEN "Both teams must have a team name"
    ELSE IF ~IsNumber(t1.ppg) \/ ~IsNumber(t2.ppg)
        THEN "Both teams must have valid PPG (points per game) values"
    ELSE IF ~IsNumber(t1.pointsAllowed) \/ ~IsNumber(t2.pointsAllowed)
        THEN "Both teams must have valid pointsAllowed values"
    ELSE IF ~IsNumber(t1.defenseRank) \/ ~IsNumber(t2.defenseRank)
        THEN "Both teams must have valid defenseRank values"
    ELSE RangeError(t1, t2)

-----------------------------------------------------------------------------
(* STEP 1, lines 54-55 *)

BaseExpected(team, opponent) == (team.ppg + opponent.pointsAllowed) \div 2

-----------------------------------------------------------------------------
(* STEP 2, calculatePaceAdjustment, lines 209-289 *)

\* the slowest bucket placed at 60 possessions instead of 63
getPaceCategorySlow60(ppg) ==
    IF ppg >= 85 * Pt THEN [poss |-> 78000, category |-> "Very Fast"]
    ELSE IF ppg >= 78 * Pt THEN [poss |-> 73500, category |-> "Fast"]
    ELSE IF ppg >= 70 * Pt THEN [poss |-> 69500, category |-> "Moderate"]
    ELSE IF ppg >= 65 * Pt THEN [poss |-> 66000, category |-> "Slow"]
    ELSE [poss |-> 60000, category |-> "Very Slow"]

getPaceCategory(ppg) ==
    IF ppg >= 85 * Pt THEN [poss |-> 78000, category |-> "Very Fast"]
    ELSE IF ppg >= 78 * Pt THEN [poss |-> 73500, category |-> "Fast"]
    ELSE IF ppg >= 70 * Pt THEN [poss |-> 69500, category |-> "Moderate"]
    ELSE IF ppg >= 65 * Pt THEN [poss |-> 66000, category |-> "Slow"]
    ELSE [poss |-> 63000, category |-> "Very Slow"]

PaceDiffCategory(paceDiff) ==
    IF paceDiff >= 16 * Pt THEN "Extreme"
    ELSE IF paceDiff >= 11 * Pt THEN "Major"
    ELSE IF paceDiff >= 6 * Pt THEN "Moderate"
    ELSE "Neutral"

getDefCategory(defRank) ==
    IF defRank <= 30 THEN "Elite"
    ELSE IF defRank <= 70 THEN "VeryGood"
    ELSE IF defRank <= 110 THEN "Good"
    ELSE "Average/Poor"

PaceMatrix ==
    [Extreme  |-> [BothGood |-> [min |-> 2, max |-> 4],
                   OneGood  |-> [min |-> 6, max |-> 8],
                   BothPoor |-> [min |-> 10, max |-> 12]],
     Major    |-> [BothGood |-> [min |-> 2, max |-> 4],
                   OneGood  |-> [min |-> 5, max |-> 7],
                   BothPoor |-> [min |-> 8, max |-> 10]],
     Moderate |-> [BothGood |-> [min |-> 1, max |-> 3],
                   OneGood  |-> [min |-> 4, max |-> 6],
                   BothPoor |-> [min |-> 6, max |-> 8]],
     Neutral  |-> [BothGood |-> [min |-> 1, max |-> 1],
                   OneGood  |-> [min |-> 2, max |-> 3],
                   BothPoor |-> [min |-> 3, max |-> 5]]]

\* the combined category with the Good tier (71-110) no longer counted as a good defense
PaceDefCombinedWithoutGood(def1, def2) ==
    LET good == {"Elite", "VeryGood"}
    IN  IF def1 \in good /\ def2 \in good THEN "BothGood"
        ELSE IF def1 \in good \/ def2 \in good THEN "OneGood"
        ELSE "BothPoor"

PaceDefCombined(def1, def2) ==
    LET good == {"Elite", "VeryGood", "Good"}
    IN  IF def1 \in good /\ def2 \in good THEN "BothGood"
        ELSE IF def1 \in good \/ def2 \in good THEN "OneGood"
        ELSE "BothPoor"

calculatePaceAdjustment(t1, t2) ==
    LET pace1 == getPaceCategory(t1.ppg)
        pace2 == getPaceCategory(t2.ppg)
        paceDiff == Abs(pace1.poss - pace2.poss)
        diffCategory == PaceDiffCategory(paceDiff)
        category == PaceDefCombined(getDefCategory(t1.defenseRank), getDefCategory(t2.defenseRank))
        range == PaceMatrix[diffCategory][category]
        adjustment == ((range.min + range.max) * Pt) \div 2
        scaledAdjustment == (adjustment * 65) \div 100
    IN  IF pace1.poss > pace2.poss
            THEN [team1 |-> (scaledAdjustment * 6) \div 10, team2 |-> (scaledAdjustment * 4) \div 10]
            ELSE [team1 |-> (scaledAdjustment * 4) \div 10, team2 |-> (scaledAdjustment * 6) \div 10]

-----------------------------------------------------------------------------
(* STEP 3, calculateFormAdjustment, lines 294-313 *)

calculateFormAdjustment(team) ==
    LET streak ==
            IF Ge(team.winStreak, 5) THEN 3500
            ELSE IF Ge(team.winStreak, 3) THEN 2500
            ELSE IF Ge(team.winStreak, 1) THEN 1000
            ELSE IF Ge(team.lossStreak, 5) THEN -9000
            ELSE IF Ge(team.lossStreak, 3) THEN -6000
            ELSE IF Ge(team.lossStreak, 1) THEN -1500
            ELSE 0
        trend ==
            IF Truthy(team.last5PPG) /\ Truthy(team.ppg)
                THEN IF team.last5PPG - team.ppg >= 5 * Pt THEN 2500
                     ELSE IF team.last5PPG - team.ppg <= -5 * Pt THEN -2500
                     ELSE 0
                ELSE 0
    IN  streak + trend

-----------------------------------------------------------------------------
(* STEP 4, calculateDefenseQualityAdjustment, lines 318-416 *)

classifyOffense(team) ==
    LET ppgRank == OrElse(team.ppgRank, 200)
        fgPct == OrElse(team.fieldGoalPct, 450)
    IN  IF ppgRank <= 100 /\ fgPct >= 480 THEN "Elite"
        ELSE IF ppgRank <= 200 /\ fgPct >= 450 THEN "Good"
        ELSE IF ppgRank <= 300 THEN "Average"
        ELSE "Poor"

getDefRank(rank) ==
    IF rank <= 30 THEN "Elite"
    ELSE IF rank <= 70 THEN "VeryGood"
    ELSE IF rank <= 110 THEN "Good"
    ELSE IF rank <= 180 THEN "Average"
    ELSE IF rank <= 250 THEN "BelowAvg"
    ELSE IF rank <= 320 THEN "Poor"
    ELSE "Terrible"

\* the matrix with the Elite row falling back at the worst defenses
DefenseMatrixMisordered ==
    [Elite   |-> [Elite |-> -13500, VeryGood |-> -9000, Good |-> -5000, Average |-> 1000,
                  BelowAvg |-> 4000, Poor |-> 5000, Terrible |-> 3000],
     Good    |-> [Elite |-> -16500, VeryGood |-> -11000, Good |-> -7000, Average |-> -1000,
                  BelowAvg |-> 3000, Poor |-> 3000, Terrible |-> 3000],
     Average |-> [Elite |-> -19000, VeryGood |-> -13500, Good |-> -9000, Average |-> -1500,
                  BelowAvg |-> 1000, Poor |-> 1000, Terrible |-> 1000],
     Poor    |-> [Elite |-> -22500, VeryGood |-> -16500, Good |-> -11000, Average |-> -7000,
                  BelowAvg |-> -1000, Poor |-> -1000, Terrible |-> -1000]]

DefenseMatrix ==
    [Elite   |-> [Elite |-> -13500, VeryGood |-> -9000, Good |-> -5000, Average |-> 1000,
                  BelowAvg |-> 4000, Poor |-> 5000, Terrible |-> 5000],
     Good    |-> [Elite |-> -16500, VeryGood |-> -11000, Good |-> -7000, Average |-> -1000,
                  BelowAvg |-> 3000, Poor |-> 3000, Terrible |-> 3000],
     Average |-> [Elite |-> -19000, VeryGood |-> -13500, Good |-> -9000, Average |-> -1500,
                  BelowAvg |-> 1000, Poor |-> 1000, Terrible |-> 1000],
     Poor    |-> [Elite |-> -22500, VeryGood |-> -16500, Good |-> -11000, Average |-> -7000,
                  BelowAvg |-> -1000, Poor |-> -1000, Terrible |-> -1000]]

\* matrix[off][def] || 0, lines 387-388
MatrixLookup(off, def) == OrElse(DefenseMatrix[off][def], 0)

\* the rule with the "Good" band still reaching to rank 180, as before the v2.2 revision
TwoGoodDefensesPenaltyWideBand(def1RankNum, def2RankNum) ==
    IF def1RankNum <= 70 /\ def2RankNum <= 70 THEN -11000
    ELSE IF def1RankNum >= 71 /\ def1RankNum <= 180 /\ def2RankNum >= 71 /\ def2RankNum <= 180 THEN -6000
    ELSE IF \/ (def1RankNum <= 70 /\ def2RankNum >= 71 /\ def2RankNum <= 150)
            \/ (def2RankNum <= 70 /\ def1RankNum >= 71 /\ def1RankNum <= 150) THEN -4000
    ELSE 0

\* the rule with a penalty of -16 for two Good defenses, larger than the step of the matrix
TwoGoodDefensesPenaltySteep(def1RankNum, def2RankNum) ==
    IF def1RankNum <= 70 /\ def2RankNum <= 70 THEN -11000
    ELSE IF def1RankNum >= 71 /\ def1RankNum <= 110 /\ def2RankNum >= 71 /\ def2RankNum <= 110 THEN -16000
    ELSE IF def1RankNum >= 111 /\ def1RankNum <= 180 /\ def2RankNum >= 111 /\ def2RankNum <= 180 THEN 0
    ELSE IF \/ (def1RankNum <= 70 /\ def2RankNum >= 71 /\ def2RankNum <= 150)
            \/ (def2RankNum <= 70 /\ def1RankNum >= 71 /\ def1RankNum <= 150) THEN -4000
    ELSE 0

\* the "Two Good Defenses" rule, lines 394-413: the additionalPenalty (0 when no rule fires)
TwoGoodDefensesPenalty(def1RankNum, def2RankNum) ==
    IF def1RankNum <= 70 /\ def2RankNum <= 70 THEN -11000
    ELSE IF def1RankNum >= 71 /\ def1RankNum <= 110 /\ def2RankNum >= 71 /\ def2RankNum <= 110 THEN -6000
    ELSE IF def1RankNum >= 111 /\ def1RankNum <= 180 /\ def2RankNum >= 111 /\ def2RankNum <= 180 THEN 0
    ELSE IF \/ (def1RankNum <= 70 /\ def2RankNum >= 71 /\ def2RankNum <= 150)
            \/ (def2RankNum <= 70 /\ def1RankNum >= 71 /\ def1RankNum <= 150) THEN -4000
    ELSE 0

calculateDefenseQualityAdjustment(t1, t2) ==
    LET off1 == classifyOffense(t1)
        off2 == classifyOffense(t2)
        def1Rank == getDefRank(t1.defenseRank)
        def2Rank == getDefRank(t2.defenseRank)
        additionalPenalty == TwoGoodDefensesPenalty(t1.defenseRank, t2.defenseRank)
    IN  [team1 |-> MatrixLookup(off1, def2Rank) + additionalPenalty \div 2,
         team2 |-> MatrixLookup(off2, def1Rank) + additionalPenalty \div 2]

-----------------------------------------------------------------------------
(* STEP 5, calculateLocationAdjustment, lines 422-504 *)

HomeBonus(homeWinRate) ==
    IF RateGe(homeWinRate, 3, 4) THEN 3500
    ELSE IF RateGe(homeWinRate, 1, 2) THEN 2500
    ELSE 1500

RoadPenalty(awayRecord, opponentNet) ==
    LET awayWinRate == WinRate(awayRecord)
    IN  IF \/ RateLt(awayWinRate, 1, 4)
           \/ (awayRecord # NoRecord /\ awayRecord[1] = 0 /\ awayRecord[2] >= 3)
            THEN (IF opponentNet <= 50 THEN -6000 ELSE IF opponentNet <= 150 THEN -5000 ELSE -4000)
        ELSE IF RateLt(awayWinRate, 3, 5)
            THEN (IF opponentNet <= 50 THEN -4000 ELSE IF opponentNet <= 150 THEN -3000 ELSE -2500)
        ELSE (IF opponentNet <= 50 THEN -2000 ELSE IF opponentNet <= 150 THEN -1500 ELSE -1000)

NeutralAdjustment(neutral) ==
    IF RateGe(neutral, 19, 20) THEN 1500
    ELSE IF RateGe(neutral, 3, 5) THEN 500
    ELSE IF RateIsZero(neutral) THEN -2500
    ELSE IF RateLt(neutral, 1, 2) THEN -1500
    ELSE 0

calculateLocationAdjustment(t1, t2, context) ==
    IF context.team1Location = "home"
        THEN [team1 |-> HomeBonus(WinRate(t1.homeRecord)),
              team2 |-> RoadPenalty(t2.awayRecord, OrElse(t1.netRank, 100))]
    ELSE IF context.team1Location = "away"
        THEN [team1 |-> RoadPenalty(t1.awayRecord, OrElse(t2.netRank, 100)),
              team2 |-> HomeBonus(WinRate(t2.homeRecord))]
    ELSE [team1 |-> NeutralAdjustment(WinRate(t1.neutralRecord)),
          team2 |-> NeutralAdjustment(WinRate(t2.neutralRecord))]

-----------------------------------------------------------------------------
(* STEP 6, calculateConferenceAdjustment, lines 509-514 *)

calculateConferenceAdjustment(context) == IF context.isConferenceGame THEN -11000 ELSE 0

-----------------------------------------------------------------------------
(* STEP 7, calculateCruiseControl, lines 519-525 *)

\* the tiers without the lowest one (15 to 20)
calculateCruiseControlFromTwenty(margin, winningTeam) ==
    IF margin >= 30 * Pt THEN -13500
    ELSE IF margin >= 25 * Pt THEN -11000
    ELSE IF margin >= 20 * Pt THEN -8500
    ELSE 0

\* one flat penalty of 13.5 for every margin from 15 up
calculateCruiseControlFlat(margin, winningTeam) ==
    IF margin >= 15 * Pt THEN -13500 ELSE 0

calculateCruiseControl(margin, winningTeam) ==
    IF margin >= 30 * Pt THEN -13500
    ELSE IF margin >= 25 * Pt THEN -11000
    ELSE IF margin >= 20 * Pt THEN -8500
    ELSE IF margin >= 15 * Pt THEN -5500
    ELSE 0

-----------------------------------------------------------------------------
(* STEP 8, applyEliteCaps, lines 530-551 *)

applyEliteCaps(score, team, opponent) ==
    IF team.ppg >= 85 * Pt /\ opponent.defenseRank > 100 THEN Min(score, 82500)
    ELSE IF team.ppg >= 85 * Pt /\ opponent.defenseRank <= 50 THEN Min(score, 74000)
    ELSE IF team.ppg >= 85 * Pt /\ opponent.defenseRank >= 300 THEN Min(score, 90000)
    ELSE IF team.ppg <= 65 * Pt /\ OrElse(team.fieldGoalPct, 450) < 400
        THEN (IF opponent.defenseRank <= 30 THEN Max(score, 47500) ELSE Max(score, 52500))
    ELSE score

-----------------------------------------------------------------------------
(* STEP 9, calculateContextualAdjustments, lines 556-577 *)

\* the missing-player deductions counted for the first team only
calculateContextualAdjustmentsFirstTeamInjuries(team, context) ==
    LET daysRest == OrElse(context.daysRest, 2)
        rest == IF daysRest = 0 THEN -4000
                ELSE IF daysRest = 1 THEN -1500
                ELSE IF daysRest >= 4 /\ daysRest <= 7 THEN 1500
                ELSE IF daysRest >= 8 THEN 2500
                ELSE 0
        travel == IF Truthy(context.travelDistance) /\ context.travelDistance >= 1000 THEN -1500 ELSE 0
    IN  rest + travel
        + (IF team = team1 /\ context.missingTopScorer THEN -6500 ELSE 0)
        + (IF team = team1 /\ context.missingPointGuard THEN -4000 ELSE 0)
        + (IF team = team1 /\ context.missingRolePlayer THEN -2500 ELSE 0)

calculateContextualAdjustments(team, context) ==
    LET daysRest == OrElse(context.daysRest, 2)
        rest == IF daysRest = 0 THEN -4000
                ELSE IF daysRest = 1 THEN -1500
                ELSE IF daysRest >= 4 /\ daysRest <= 7 THEN 1500
                ELSE IF daysRest >= 8 THEN 2500
                ELSE 0
        travel == IF Truthy(context.travelDistance) /\ context.travelDistance >= 1000 THEN -1500 ELSE 0
    IN  rest + travel
        + (IF context.missingTopScorer THEN -6500 ELSE 0)
        + (IF context.missingPointGuard THEN -4000 ELSE 0)
        + (IF context.missingRolePlayer THEN -2500 ELSE 0)

-----------------------------------------------------------------------------
(* STEP 11, calculateExtremeMismatch, lines 583-668 *)

\* adjustments kept outside the function, so that a call starts from the last call's deltas
StaleAdjustments == extremeMismatch.adjustments

\* line 588: let adjustments = { team1: 0, team2: 0 }
InitialAdjustments == [team1 |-> 0, team2 |-> 0]

\* 11A, lines 595-619: the bottom-10 deltas
Bottom10Adjustments(net1, net2) ==
    IF net1 >= 356 /\ ~(net2 >= 356) THEN [team1 |-> -12500, team2 |-> 12500]
    ELSE IF net2 >= 356 /\ ~(net1 >= 356) THEN [team1 |-> 12500, team2 |-> -12500]
    ELSE [team1 |-> 0, team2 |-> 0]

\* the extreme-gap rule giving the whole 17.5 to each side instead of half of it
NetGapAdjustmentsUnsplit(net1, net2) ==
    IF Abs(net1 - net2) >= 200 /\ ~(net1 >= 356) /\ ~(net2 >= 356)
        THEN (IF net1 < net2 THEN [team1 |-> 17500, team2 |-> -17500]
                             ELSE [team1 |-> -17500, team2 |-> 17500])
        ELSE [team1 |-> 0, team2 |-> 0]

\* 11B, lines 621-637: the extreme-gap deltas
NetGapAdjustments(net1, net2) ==
    IF Abs(net1 - net2) >= 200 /\ ~(net1 >= 356) /\ ~(net2 >= 356)
        THEN (IF net1 < net2 THEN [team1 |-> 8750, team2 |-> -8750]
                             ELSE [team1 |-> -8750, team2 |-> 8750])
        ELSE [team1 |-> 0, team2 |-> 0]

\* the statement-game rule without the test that the team is the better-ranked side
StatementGameAdjustmentsAnyRank(t1, t2, net1, net2) ==
    [team1 |-> IF OrElse(t1.lossStreak, 0) >= 3 /\ net2 >= 314 THEN 10000 ELSE 0,
     team2 |-> IF OrElse(t2.lossStreak, 0) >= 3 /\ net1 >= 314 THEN 10000 ELSE 0]

\* 11C, lines 639-658: the statement-game deltas
StatementGameAdjustments(t1, t2, net1, net2) ==
    [team1 |-> IF OrElse(t1.lossStreak, 0) >= 3 /\ net2 >= 314 /\ net1 < net2 THEN 10000 ELSE 0,
     team2 |-> IF OrElse(t2.lossStreak, 0) >= 3 /\ net1 >= 314 /\ net2 < net1 THEN 10000 ELSE 0]

\* the bottom-10 rule firing only when both teams are in the bottom 10
BothBottom10(net1, net2) == net1 >= 356 /\ net2 >= 356

\* line 599: isTeam1Bottom10 || isTeam2Bottom10
IsBottom10Game(net1, net2) == net1 >= 356 \/ net2 >= 356

calculateExtremeMismatch(t1, t2, score1, score2) ==
    LET net1 == OrElse(t1.netRank, 150)
        net2 == OrElse(t2.netRank, 150)
        bottom10 == IsBottom10Game(net1, net2)
        a == Bottom10Adjustments(net1, net2)
        b == NetGapAdjustments(net1, net2)
        c == StatementGameAdjustments(t1, t2, net1, net2)
    IN  [adjustments |-> [team1 |-> InitialAdjustments.team1 + a.team1 + b.team1 + c.team1,
                          team2 |-> InitialAdjustments.team2 + a.team2 + b.team2 + c.team2],
         skipCruiseControl |-> bottom10 \/ (Abs(net1 - net2) >= 200 /\ ~bottom10),
         skipEliteCaps |-> bottom10,
         applyFloor |-> bottom10,
         applyMaxCap |-> bottom10,
         floorValue |-> 48000]

-----------------------------------------------------------------------------
(* STEP 10, calculateFirstHalf, lines 673-699 *)

FirstHalfPct(team) ==
    IF Truthy(team.firstHalfPPG) /\ Truthy(team.ppg)
        THEN IF team.firstHalfPPG * 100 >= 52 * team.ppg THEN 50
             ELSE IF team.firstHalfPPG * 100 < 46 * team.ppg THEN 46
             ELSE 48
        ELSE 48

calculateFirstHalf(team1Full, team2Full, t1, t2) ==
    LET team1FirstHalf == MathRoundPct(team1Full, FirstHalfPct(t1))
        team2FirstHalf == MathRoundPct(team2Full, FirstHalfPct(t2))
    IN  [team1 |-> team1FirstHalf, team2 |-> team2FirstHalf, total |-> team1FirstHalf + team2FirstHalf]

-----------------------------------------------------------------------------
(* calculateV2Prediction, lines 21-204 *)

NoResult == [none |-> TRUE]

\* an object with no property: {}
EmptyObject ==
    [kind |-> "object", team1Location |-> noLabel, isConferenceGame |-> FALSE, daysRest |-> undefined,
     travelDistance |-> undefined, missingTopScorer |-> FALSE, missingPointGuard |-> FALSE,
     missingRolePlayer |-> FALSE]

\* the third parameter without its default
RawContext == gameContext

\* the default parameter of line 21, gameContext = {}: it replaces undefined, not null
Context == IF gameContext.kind = "undefined" THEN EmptyObject ELSE gameContext

\* the margin without Math.abs
SignedMargin(score1, score2) == score1 - score2

\* line 169
Margin(score1, score2) == Abs(score1 - score2)

\* lines 167-199: the returned object
ComposeResult(t1, t2, score1, score2, fh, calc, em) ==
    [team1 |-> [name |-> t1.team, fullGame |-> score1, firstHalf |-> fh.team1, isWinner |-> score1 > score2],
     team2 |-> [name |-> t2.team, fullGame |-> score2, firstHalf |-> fh.team2, isWinner |-> score2 > score1],
     total |-> score1 + score2,
     firstHalfTotal |-> fh.total,
     margin |-> Margin(score1, score2),
     winner |-> IF score1 > score2 THEN t1.team ELSE t2.team,
     calculations |-> [base |-> calc.base, pace |-> calc.pace, form |-> calc.form,
                       defense |-> calc.defense, location |-> calc.location,
                       conference |-> calc.conference, cruiseControl |-> calc.cruiseControl,
                       contextual |-> calc.contextual, extremeMismatch |-> em.adjustments]]

\* control moves on and the stage is recorded as executed
Goto(next, stage) == pc' = next /\ stages' = Append(stages, stage)

Args == <<team1, team2, gameContext>>
Outcome == <<result, error, thrown, console, calls, firstOutcome>>
Locals == <<calculations, team1Score, team2Score, extremeMismatch, preliminaryMargin,
            marginBeforeCloseBonus, firstHalf>>
LocalsButCalc == <<team1Score, team2Score, extremeMismatch, preliminaryMargin,
                   marginBeforeCloseBonus, firstHalf>>
LocalsButScores == <<calculations, extremeMismatch, preliminaryMargin, marginBeforeCloseBonus, firstHalf>>

\* lines 23-51, every check passes
Validate ==
    /\ pc = "validate"
    /\ ValidationError(team1, team2) = ""
    /\ pc' = "base"
    /\ UNCHANGED <<Args, Outcome, Locals, stages>>

\* lines 23-51, a check throws: control goes to the catch of line 200
ValidateThrow ==
    /\ pc = "validate"
    /\ ValidationError(team1, team2) # ""
    /\ error' = ValidationError(team1, team2)
    /\ pc' = "catch"
    /\ UNCHANGED <<Args, result, thrown, console, calls, firstOutcome, Locals, stages>>

\* lines 200-203: console.error, then throw new Error(`v2.2 Prediction failed: ...`)
Catch ==
    /\ pc = "catch"
    /\ console' = Append(console, <<"Error in v2.2 prediction:", error>>)
    /\ thrown' = "v2.2 Prediction failed: " \o error
    /\ pc' = "threw"
    /\ UNCHANGED <<Args, result, error, calls, firstOutcome, Locals, stages>>

\* lines 53-56
Step1Base ==
    /\ pc = "base"
    /\ calculations' = [calculations EXCEPT !.base = [team1 |-> BaseExpected(team1, team2),
                                                      team2 |-> BaseExpected(team2, team1)]]
    /\ Goto("pace", "base")
    /\ UNCHANGED <<Args, Outcome, LocalsButCalc>>

\* lines 58-59
Step2Pace ==
    /\ pc = "pace"
    /\ calculations' = [calculations EXCEPT !.pace = calculatePaceAdjustment(team1, team2)]
    /\ Goto("form", "pace")
    /\ UNCHANGED <<Args, Outcome, LocalsButCalc>>

\* lines 61-63
Step3Form ==
    /\ pc = "form"
    /\ calculations' = [calculations EXCEPT !.form = [team1 |-> calculateFormAdjustment(team1),
                                                      team2 |-> calculateFormAdjustment(team2)]]
    /\ Goto("defense", "form")
    /\ UNCHANGED <<Args, Outcome, LocalsButCalc>>

\* lines 65-66
Step4Defense ==
    /\ pc = "defense"
    /\ calculations' = [calculations EXCEPT !.defense = calculateDefenseQualityAdjustment(team1, team2)]
    /\ Goto("location", "defense")
    /\ UNCHANGED <<Args, Outcome, LocalsButCalc>>

\* line 427 reads context.team1Location: a TypeError when context is null or undefined
LocationTypeError(context) ==
    IF context.kind \in {"null", "undefined"}
        THEN "Cannot read properties of " \o context.kind \o " (reading 'team1Location')"
        ELSE ""

\* lines 68-69, the property read throws: control goes to the catch of line 200
Step5LocationThrow ==
    /\ pc = "location"
    /\ LocationTypeError(Context) # ""
    /\ error' = LocationTypeError(Context)
    /\ pc' = "catch"
    /\ UNCHANGED <<Args, result, thrown, console, calls, firstOutcome, Locals, stages>>

\* lines 68-69
Step5Location ==
    /\ pc = "location"
    /\ LocationTypeError(Context) = ""
    /\ calculations' = [calculations EXCEPT !.location = calculateLocationAdjustment(team1, team2, Context)]
    /\ Goto("conference", "location")
    /\ UNCHANGED <<Args, Outcome, LocalsButCalc>>

\* lines 71-72
Step6Conference ==
    /\ pc = "conference"
    /\ calculations' = [calculations EXCEPT !.conference = calculateConferenceAdjustment(Context)]
    /\ Goto("preliminary", "conference")
    /\ UNCHANGED <<Args, Outcome, LocalsButCalc>>

\* lines 74-82: the preliminary scores, conference adjustment included
PreliminaryScore(calc, t) ==
    calc.base[t] + calc.pace[t] + calc.form[t] + calc.defense[t] + calc.location[t]
    + (IF calc.conference # 0 THEN calc.conference \div 2 ELSE 0)

Preliminary ==
    /\ pc = "preliminary"
    /\ team1Score' = PreliminaryScore(calculations, "team1")
    /\ team2Score' = PreliminaryScore(calculations, "team2")
    /\ Goto("extremeCheck", "preliminary")
    /\ UNCHANGED <<Args, Outcome, calculations, extremeMismatch, preliminaryMargin,
                   marginBeforeCloseBonus, firstHalf>>

\* lines 84-88
Step11Check ==
    /\ pc = "extremeCheck"
    /\ extremeMismatch' = calculateExtremeMismatch(team1, team2, team1Score, team2Score)
    /\ Goto("cruiseControl", "extremeCheck")
    /\ UNCHANGED <<Args, Outcome, calculations, team1Score, team2Score, preliminaryMargin,
                   marginBeforeCloseBonus, firstHalf>>

\* the cruise-control tier chosen from a margin that already holds the stored
\* extreme-mismatch deltas
CruiseControlValueAfterMismatch(em, score1, score2) ==
    IF ~em.skipCruiseControl
        THEN calculateCruiseControl(Abs((score1 + em.adjustments.team1) - (score2 + em.adjustments.team2)),
                                    IF score1 > score2 THEN 1 ELSE 2)
        ELSE 0

\* lines 92-94: the recorded cruiseControl
CruiseControlValue(em, score1, score2) ==
    IF ~em.skipCruiseControl
        THEN calculateCruiseControl(Abs(score1 - score2), IF score1 > score2 THEN 1 ELSE 2)
        ELSE 0

\* lines 90-102
Step7CruiseControl ==
    /\ pc = "cruiseControl"
    /\ preliminaryMargin' = Abs(team1Score - team2Score)
    /\ LET cruiseControl == CruiseControlValue(extremeMismatch, team1Score, team2Score)
       IN  /\ calculations' = [calculations EXCEPT !.cruiseControl = cruiseControl]
           /\ team1Score' = IF cruiseControl # 0 /\ team1Score > team2Score
                                THEN team1Score + cruiseControl ELSE team1Score
           /\ team2Score' = IF cruiseControl # 0 /\ ~(team1Score > team2Score)
                                THEN team2Score + cruiseControl ELSE team2Score
    /\ Goto("eliteCaps", "cruiseControl")
    /\ UNCHANGED <<Args, Outcome, extremeMismatch, marginBeforeCloseBonus, firstHalf>>

\* lines 104-108
Step8EliteCaps ==
    /\ pc = "eliteCaps"
    /\ team1Score' = IF ~extremeMismatch.skipEliteCaps
                        THEN applyEliteCaps(team1Score, team1, team2) ELSE team1Score
    /\ team2Score' = IF ~extremeMismatch.skipEliteCaps
                        THEN applyEliteCaps(team2Score, team2, team1) ELSE team2Score
    /\ Goto("contextual", "eliteCaps")
    /\ UNCHANGED <<Args, Outcome, LocalsButScores>>

\* lines 110-114
Step9Contextual ==
    /\ pc = "contextual"
    /\ LET contextual1 == calculateContextualAdjustments(team1, Context)
           contextual2 == calculateContextualAdjustments(team2, Context)
       IN  /\ calculations' = [calculations EXCEPT !.contextual = [team1 |-> contextual1, team2 |-> contextual2]]
           /\ team1Score' = team1Score + contextual1
           /\ team2Score' = team2Score + contextual2
    /\ Goto("extremeApply", "contextual")
    /\ UNCHANGED <<Args, Outcome, extremeMismatch, preliminaryMargin, marginBeforeCloseBonus, firstHalf>>

\* lines 116-119
Step11Apply ==
    /\ pc = "extremeApply"
    /\ team1Score' = team1Score + extremeMismatch.adjustments.team1
    /\ team2Score' = team2Score + extremeMismatch.adjustments.team2
    /\ Goto("floor", "extremeApply")
    /\ UNCHANGED <<Args, Outcome, LocalsButScores>>

\* the floor missing the team ranked exactly 356
FloorScoreAbove356(em, team, score) ==
    IF em.applyFloor /\ Gt(team.netRank, 356) THEN Max(score, em.floorValue) ELSE score

\* lines 121-129
FloorScore(em, team, score) ==
    IF em.applyFloor /\ Ge(team.netRank, 356) THEN Max(score, em.floorValue) ELSE score

Step11Floor ==
    /\ pc = "floor"
    /\ team1Score' = FloorScore(extremeMismatch, team1, team1Score)
    /\ team2Score' = FloorScore(extremeMismatch, team2, team2Score)
    /\ Goto("maxCap", "floor")
    /\ UNCHANGED <<Args, Outcome, LocalsButScores>>

\* lines 131-138
Step11MaxCap ==
    /\ pc = "maxCap"
    /\ team1Score' = IF extremeMismatch.applyMaxCap /\ team1Score > team2Score
                        THEN Min(team1Score, 110 * Pt) ELSE team1Score
    /\ team2Score' = IF extremeMismatch.applyMaxCap /\ ~(team1Score > team2Score)
                        THEN Min(team2Score, 110 * Pt) ELSE team2Score
    /\ Goto("closeGame", "maxCap")
    /\ UNCHANGED <<Args, Outcome, LocalsButScores>>

\* the 55/45 split given to the wrong sides
CloseGameSharesSwapped(context) ==
    LET closeGameBonus == 7 * Pt
    IN  IF context.team1Location = "home"
            THEN <<(closeGameBonus * 45) \div 100, (closeGameBonus * 55) \div 100>>
        ELSE IF context.team1Location = "away"
            THEN <<(closeGameBonus * 55) \div 100, (closeGameBonus * 45) \div 100>>
        ELSE <<closeGameBonus \div 2, closeGameBonus \div 2>>

\* lines 145-157: the two shares of the closeGameBonus, <<team1, team2>>
CloseGameShares(context) ==
    LET closeGameBonus == 7 * Pt
    IN  IF context.team1Location = "home"
            THEN <<(closeGameBonus * 55) \div 100, (closeGameBonus * 45) \div 100>>
        ELSE IF context.team1Location = "away"
            THEN <<(closeGameBonus * 45) \div 100, (closeGameBonus * 55) \div 100>>
        ELSE <<closeGameBonus \div 2, closeGameBonus \div 2>>

\* line 144
IsCloseGame(margin) == margin < 5 * Pt

\* lines 140-158
Step13CloseGame ==
    /\ pc = "closeGame"
    /\ marginBeforeCloseBonus' = Abs(team1Score - team2Score)
    /\ team1Score' = IF IsCloseGame(Abs(team1Score - team2Score))
                        THEN team1Score + CloseGameShares(Context)[1] ELSE team1Score
    /\ team2Score' = IF IsCloseGame(Abs(team1Score - team2Score))
                        THEN team2Score + CloseGameShares(Context)[2] ELSE team2Score
    /\ Goto("round", "closeGame")
    /\ UNCHANGED <<Args, Outcome, calculations, extremeMismatch, preliminaryMargin, firstHalf>>

\* lines 160-162: from here on the scores are whole points
Round ==
    /\ pc = "round"
    /\ team1Score' = MathRound(team1Score)
    /\ team2Score' = MathRound(team2Score)
    /\ Goto("firstHalf", "round")
    /\ UNCHANGED <<Args, Outcome, LocalsButScores>>

\* lines 164-165
Step10FirstHalf ==
    /\ pc = "firstHalf"
    /\ firstHalf' = calculateFirstHalf(team1Score, team2Score, team1, team2)
    /\ Goto("return", "firstHalf")
    /\ UNCHANGED <<Args, Outcome, calculations, team1Score, team2Score, extremeMismatch,
                   preliminaryMargin, marginBeforeCloseBonus>>

\* lines 167-199
Return ==
    /\ pc = "return"
    /\ result' = ComposeResult(team1, team2, team1Score, team2Score, firstHalf, calculations, extremeMismatch)
    /\ Goto("returned", "return")
    /\ UNCHANGED <<Args, error, thrown, console, calls, firstOutcome, Locals>>

\* the caller calls again with the same arguments (as the page does for its second
\* prediction); a call starts with no outcome, and its locals hold whatever was there
\* until its own statements assign them
MaxCalls == 2

CallAgain ==
    /\ pc \in {"returned", "threw"}
    /\ calls < MaxCalls
    /\ firstOutcome' = IF calls = 1 THEN [result |-> result, thrown |-> thrown] ELSE firstOutcome
    /\ calls' = calls + 1
    /\ pc' = "validate"
    /\ result' = NoResult
    /\ error' = ""
    /\ thrown' = ""
    /\ stages' = <<>>
    /\ UNCHANGED <<Args, console, Locals>>

Next ==
    \/ Validate \/ ValidateThrow \/ Catch
    \/ Step1Base \/ Step2Pace \/ Step3Form \/ Step4Defense \/ Step5Location
    \/ Step5LocationThrow \/ Step6Conference
    \/ Preliminary \/ Step11Check \/ Step7CruiseControl \/ Step8EliteCaps \/ Step9Contextual
    \/ Step11Apply \/ Step11Floor \/ Step11MaxCap \/ Step13CloseGame \/ Round
    \/ Step10FirstHalf \/ Return \/ CallAgain

\* lines 53-162 as one function of the arguments: the stages composed in the order of
\* the source, giving the rounded scores <<team1Score, team2Score>>
PredictedScores(t1, t2, context) ==
    LET pace == calculatePaceAdjustment(t1, t2)
        defense == calculateDefenseQualityAdjustment(t1, t2)
        location == calculateLocationAdjustment(t1, t2, context)
        calc == [base |-> [team1 |-> BaseExpected(t1, t2), team2 |-> BaseExpected(t2, t1)],
                 pace |-> pace,
                 form |-> [team1 |-> calculateFormAdjustment(t1), team2 |-> calculateFormAdjustment(t2)],
                 defense |-> defense, location |-> location,
                 conference |-> calculateConferenceAdjustment(context)]
        p1 == PreliminaryScore(calc, "team1")
        p2 == PreliminaryScore(calc, "team2")
        em == calculateExtremeMismatch(t1, t2, p1, p2)
        cruiseControl == CruiseControlValue(em, p1, p2)
        c1 == IF cruiseControl # 0 /\ p1 > p2 THEN p1 + cruiseControl ELSE p1
        c2 == IF cruiseControl # 0 /\ ~(p1 > p2) THEN p2 + cruiseControl ELSE p2
        e1 == IF ~em.skipEliteCaps THEN applyEliteCaps(c1, t1, t2) ELSE c1
        e2 == IF ~em.skipEliteCaps THEN applyEliteCaps(c2, t2, t1) ELSE c2
        x1 == e1 + calculateContextualAdjustments(t1, context) + em.adjustments.team1
        x2 == e2 + calculateContextualAdjustments(t2, context) + em.adjustments.team2
        f1 == FloorScore(em, t1, x1)
        f2 == FloorScore(em, t2, x2)
        m1 == IF em.applyMaxCap /\ f1 > f2 THEN Min(f1, 110 * Pt) ELSE f1
        m2 == IF em.applyMaxCap /\ ~(f1 > f2) THEN Min(f2, 110 * Pt) ELSE f2
        close == IsCloseGame(Abs(m1 - m2))
        b1 == IF close THEN m1 + CloseGameShares(context)[1] ELSE m1
        b2 == IF close THEN m2 + CloseGameShares(context)[2] ELSE m2
    IN  <<MathRound(b1), MathRound(b2)>>

-----------------------------------------------------------------------------
(* The arguments the calls are made with *)

\* a profile that has the required fields only
NewTeam(label, ppg, pointsAllowed, defenseRank) ==
    [present |-> TRUE, team |-> label, ppg |-> ppg, pointsAllowed |-> pointsAllowed,
     defenseRank |-> defenseRank, ppgRank |-> undefined, fieldGoalPct |-> undefined,
     netRank |-> undefined, winStreak |-> undefined, lossStreak |-> undefined,
     last5PPG |-> undefined, firstHalfPPG |-> undefined,
     homeRecord |-> NoRecord, awayRecord |-> NoRecord, neutralRecord |-> NoRecord]

\* null passed for a team
NullTeam == [NewTeam(noLabel, undefined, undefined, undefined) EXCEPT !.present = FALSE]

NewContext(location, conference, daysRest, travelDistance, topScorer, pointGuard, rolePlayer) ==
    [kind |-> "object", team1Location |-> location, isConferenceGame |-> conference,
     daysRest |-> daysRest, travelDistance |-> travelDistance, missingTopScorer |-> topScorer,
     missingPointGuard |-> pointGuard, missingRolePlayer |-> rolePlayer]

\* no third argument
AbsentContext == [EmptyObject EXCEPT !.kind = "undefined"]

\* null passed as the third argument
NullContext == [EmptyObject EXCEPT !.kind = "null"]

AtLocation(location) == NewContext(location, FALSE, undefined, undefined, FALSE, FALSE, FALSE)

Minimal(label) == NewTeam(label, 75000, 70000, 150)

Strong(label) ==
    [NewTeam(label, 88000, 64000, 20) EXCEPT
        !.ppgRank = 10, !.fieldGoalPct = 490, !.netRank = 15, !.winStreak = 6, !.lossStreak = 0,
        !.last5PPG = 94000, !.firstHalfPPG = 47000,
        !.homeRecord = <<12, 1>>, !.awayRecord = <<8, 3>>, !.neutralRecord = <<2, 0>>]

Average(label) ==
    [NewTeam(label, 72000, 71000, 160) EXCEPT
        !.ppgRank = 180, !.fieldGoalPct = 455, !.netRank = 160, !.winStreak = 1, !.lossStreak = 0,
        !.last5PPG = 72400, !.firstHalfPPG = 33000,
        !.homeRecord = <<7, 5>>, !.awayRecord = <<4, 6>>, !.neutralRecord = <<1, 1>>]

Weak(label) ==
    [NewTeam(label, 61000, 84000, 345) EXCEPT
        !.ppgRank = 350, !.fieldGoalPct = 390, !.netRank = 360, !.winStreak = 0, !.lossStreak = 5,
        !.last5PPG = 55000, !.firstHalfPPG = 29000,
        !.homeRecord = <<3, 9>>, !.awayRecord = <<0, 4>>, !.neutralRecord = <<0, 2>>]

Slumping(label) ==
    [NewTeam(label, 90000, 80000, 200) EXCEPT
        !.ppgRank = 40, !.fieldGoalPct = 470, !.netRank = 120, !.lossStreak = 3,
        !.last5PPG = 84000, !.awayRecord = <<1, 5>>]

\* records of zero games and optional fields that are present but falsy
ZeroGames(label) ==
    [NewTeam(label, 75000, 70000, 150) EXCEPT
        !.ppgRank = 0, !.fieldGoalPct = 0, !.netRank = 0, !.winStreak = 0, !.lossStreak = 0,
        !.last5PPG = 0, !.firstHalfPPG = 0,
        !.homeRecord = <<0, 0>>, !.awayRecord = <<0, 0>>, !.neutralRecord = <<0, 0>>]

NoPpg(label) == NewTeam(label, undefined, 70000, 150)

Profiles(label) ==
    {Minimal(label), Strong(label), Average(label), Weak(label), Slumping(label),
     ZeroGames(label), NoPpg(label)}

Contexts ==
    {AbsentContext, NullContext, EmptyObject, AtLocation("home"), AtLocation("away"), AtLocation("neutral"),
     NewContext("home", TRUE, 1, 300, FALSE, FALSE, FALSE),
     NewContext("away", FALSE, 5, 1200, TRUE, FALSE, FALSE),
     NewContext("neutral", TRUE, 0, 0, TRUE, TRUE, TRUE),
     NewContext(noLabel, FALSE, 8, undefined, FALSE, FALSE, TRUE)}

-----------------------------------------------------------------------------
(* The state before the first call *)

NoPair == [team1 |-> 0, team2 |-> 0]

InitWith(teams1, teams2, contexts) ==
    /\ team1 \in teams1
    /\ team2 \in teams2
    /\ gameContext \in contexts
    /\ pc = "validate"
    /\ calculations = [base |-> NoPair, pace |-> NoPair, form |-> NoPair, defense |-> NoPair,
                       location |-> NoPair, conference |-> 0, cruiseControl |-> 0,
                       contextual |-> NoPair]
    /\ team1Score = 0
    /\ team2Score = 0
    /\ extremeMismatch = [adjustments |-> NoPair, skipCruiseControl |-> FALSE, skipEliteCaps |-> FALSE,
                          applyFloor |-> FALSE, applyMaxCap |-> FALSE, floorValue |-> 0]
    /\ preliminaryMargin = 0
    /\ marginBeforeCloseBonus = 0
    /\ firstHalf = [team1 |-> 0, team2 |-> 0, total |-> 0]
    /\ result = NoResult
    /\ error = ""
    /\ thrown = ""
    /\ console = <<>>
    /\ stages = <<>>
    /\ calls = 1
    /\ firstOutcome = [result |-> NoResult, thrown |-> ""]

Init == InitWith(Profiles("A"), Profiles("B") \cup {Minimal("A")}, Contexts)

Spec == Init /\ [][Next]_vars

-----------------------------------------------------------------------------
(* Further sets of arguments, each exercising one part of the pipeline *)

\* the required fields, each absent, of the wrong type, out of range and on its bounds
RequiredGrid(label) ==
    {NewTeam(l, p, a, d) : l \in {label, "", noLabel},
                           p \in {undefined, aString, -100, 0, 150000, 150100},
                           a \in {undefined, aString, 70000, -1000},
                           d \in {undefined, aString, 0, 1, 363, 364}} \cup {NullTeam}

Opponents(label) ==
    {Minimal(label), NewTeam(label, 150000, 70000, 363), NewTeam(label, 0, 70000, 1),
     NewTeam(label, 75000, 70000, 364)}

InitValidation ==
    \/ InitWith(RequiredGrid("A"), Opponents("B"), {EmptyObject, NullContext})
    \/ InitWith(Opponents("A"), RequiredGrid("B"), {EmptyObject, NullContext})

SpecValidation == InitValidation /\ [][Next]_vars

\* defense ranks on both sides of every tier boundary, and one offense of each tier
DefenseRanks == {1, 30, 31, 70, 71, 110, 111, 150, 151, 180, 181, 250, 251, 320, 321, 363}

Offenses == {<<50, 480>>, <<150, 450>>, <<250, 440>>, <<320, 440>>, <<undefined, undefined>>}

DefenseTeam(label, rank, offense) ==
    [NewTeam(label, 75000, 70000, rank) EXCEPT !.ppgRank = offense[1], !.fieldGoalPct = offense[2]]

InitDefense ==
    \/ InitWith({DefenseTeam("A", r, o) : r \in DefenseRanks, o \in Offenses},
                {DefenseTeam("B", r, o) : r \in DefenseRanks, o \in {<<50, 480>>, <<320, 440>>}},
                {EmptyObject})
    \/ InitWith({Minimal("A"), NoPpg("A")}, {Minimal("B")}, {NullContext, EmptyObject})

SpecDefense == InitDefense /\ [][Next]_vars

\* overall-strength ranks around 356, 314 and the gap of 200, with scores that are
\* low (under the floor), high (over the elite caps) and in between
NetRanks == {undefined, 1, 100, 155, 156, 313, 314, 355, 356, 363}

Scorers(label) ==
    {[NewTeam(label, 45000, 90000, 150) EXCEPT !.fieldGoalPct = 390],
     [NewTeam(label, 100000, 55000, 150) EXCEPT !.fieldGoalPct = 500],
     NewTeam(label, 75000, 70000, 150)}

MismatchTeams(label) ==
    {[t EXCEPT !.netRank = n, !.lossStreak = l] : t \in Scorers(label), n \in NetRanks, l \in {undefined, 3}}

InitMismatch ==
    \/ InitWith(MismatchTeams("A"), MismatchTeams("B"), {EmptyObject, AtLocation("home")})
    \/ InitWith({Minimal("A"), NoPpg("A")}, {Minimal("B")}, {NullContext, EmptyObject})

SpecMismatch == InitMismatch /\ [][Next]_vars

\* scoring averages that put the margin before the close-game stage on both sides of 5
ClosePpgs ==
    {65000 + 1000 * k : k \in 0..20} \cup
    {b + d : b \in {64820, 66040, 73040, 74040, 75040, 77040, 81960, 83960}, d \in {-40, 40}}

InitClose ==
    \/ InitWith({NewTeam("A", p, 70000, 150) : p \in ClosePpgs}, {Minimal("B"), Average("B")},
                {AbsentContext, AtLocation("home"), AtLocation("away"), AtLocation("neutral"),
                 NewContext("home", TRUE, 5, undefined, FALSE, FALSE, FALSE)})
    \/ InitWith({Minimal("A"), NoPpg("A")}, {Minimal("B")}, {NullContext, EmptyObject})

SpecClose == InitClose /\ [][Next]_vars

\* the regression scenario: a strong home offense against a weak road team, the road
\* team's defense rank taking every value
ScenarioA ==
    [NewTeam("A", 84300, 80300, 316) EXCEPT !.fieldGoalPct = 480, !.ppgRank = 78, !.netRank = 150]

ScenarioB(defenseRank) ==
    [NewTeam("B", 69100, 88400, defenseRank) EXCEPT !.fieldGoalPct = 413, !.ppgRank = 322, !.netRank = 350]

InitScenario ==
    \/ InitWith({ScenarioA}, {ScenarioB(r) : r \in 1..363}, {AtLocation("home")})
    \/ InitWith({Minimal("A"), NoPpg("A")}, {Minimal("B")}, {NullContext, EmptyObject})

SpecScenario == InitScenario /\ [][Next]_vars

\* every rest bucket and its bounds, travel on both sides of 1000, every injury flag
RestDays == {undefined, 0, 1, 2, 3, 4, 7, 8, 30}

ContextGrid ==
    {NewContext("home", FALSE, d, t, a, b, c) :
        d \in RestDays, t \in {undefined, 0, 999, 1000}, a \in BOOLEAN, b \in BOOLEAN, c \in BOOLEAN}

InitContext ==
    \/ InitWith({Minimal("A"), Strong("A")}, {Minimal("B")}, ContextGrid)
    \/ InitWith({Minimal("A"), NoPpg("A")}, {Minimal("B")}, {NullContext, EmptyObject})

SpecContext == InitContext /\ [][Next]_vars

\* scoring averages around 85 and 65, shooting around .40, opponents' defense ranks
\* on both sides of 30, 50, 100 and 300
CapRanks == {30, 31, 50, 51, 100, 101, 299, 300, 363}

HighScorers(label) ==
    {NewTeam(label, p, 70000, r) : p \in {84900, 85000, 100000}, r \in CapRanks}

LowScorers(label) ==
    {[NewTeam(label, p, a, r) EXCEPT !.fieldGoalPct = f] :
        p \in {50000, 65000, 65100}, a \in {70000, 95000}, r \in CapRanks, f \in {390, 400}}

InitCaps ==
    \/ InitWith(HighScorers("A"), LowScorers("B"), {EmptyObject})
    \/ InitWith({Minimal("A"), NoPpg("A")}, {Minimal("B")}, {NullContext, EmptyObject})

SpecCaps == InitCaps /\ [][Next]_vars

\* scoring averages on both sides of every pace bucket, defense ranks around 110
PacePpgs == {64900, 65000, 69900, 70000, 77900, 78000, 84900, 85000}

PaceTeams(label) == {NewTeam(label, p, 70000, r) : p \in PacePpgs, r \in {30, 110, 111}}

InitPace ==
    \/ InitWith(PaceTeams("A"), PaceTeams("B"), {EmptyObject})
    \/ InitWith({Minimal("A"), NoPpg("A")}, {Minimal("B")}, {NullContext, EmptyObject})

SpecPace == InitPace /\ [][Next]_vars

\* the scoring averages validation accepts, in half points
ValidPpgs == {k * 500 : k \in 0..300}

\* every defense rank of the opponent, against own ranks in each band of the
\* "Two Good Defenses" rule and an offense of each tier
OwnRanks == {70, 71, 110, 111, 150, 151}

InitMonotone ==
    \/ InitWith({DefenseTeam("A", d, o) : d \in OwnRanks, o \in Offenses \ {<<undefined, undefined>>}},
                {DefenseTeam("B", r, <<320, 440>>) : r \in 1..363},
                {EmptyObject})
    \/ InitWith({Minimal("A"), NoPpg("A")}, {Minimal("B")}, {NullContext, EmptyObject})

SpecMonotone == InitMonotone /\ [][Next]_vars

\* every streak bucket, and trailing averages on both sides of a 5-point trend, for a
\* season average of 70 and one of 0
Streaks == {undefined, 0, 1, 2, 3, 4, 5, 6}

FormTeams(label) ==
    {[NewTeam(label, p, 70000, 150) EXCEPT !.winStreak = w, !.lossStreak = l, !.last5PPG = r] :
        p \in {0, 70000}, w \in Streaks, l \in Streaks,
        r \in {undefined, 0, 4900, 5000, 64900, 65000, 65100, 74900, 75000, 75100}}

InitForm ==
    \/ InitWith(FormTeams("A"), {Minimal("B")}, {EmptyObject})
    \/ InitWith({Minimal("A"), NoPpg("A")}, {Minimal("B")}, {NullContext, EmptyObject})

SpecForm == InitForm /\ [][Next]_vars

\* losing streaks on both sides of 3 and overall-strength ranks on both sides of 314
StatementTeams(label) ==
    {[NewTeam(label, 75000, 70000, 150) EXCEPT !.netRank = n, !.lossStreak = l] :
        n \in {undefined, 100, 313, 314, 315, 355, 356, 363}, l \in {undefined, 0, 2, 3, 4}}

InitStatement ==
    \/ InitWith(StatementTeams("A"), StatementTeams("B"), {EmptyObject})
    \/ InitWith({Minimal("A"), NoPpg("A")}, {Minimal("B")}, {NullContext, EmptyObject})

SpecStatement == InitStatement /\ [][Next]_vars

\* one team against the minimal profile, its scoring average growing point by point so
\* that the preliminary margin passes through every cruise-control tier; either side leads
CruiseTeams(label) == {NewTeam(label, 70000 + 1000 * k, 70000, 150) : k \in 0..75}

InitCruise ==
    \/ InitWith(CruiseTeams("A"), {Minimal("B")}, {EmptyObject, AtLocation("home")})
    \/ InitWith({Minimal("A")}, CruiseTeams("B"), {EmptyObject, AtLocation("home")})
    \/ InitWith({Minimal("A"), NoPpg("A")}, {Minimal("B")}, {NullContext, EmptyObject})

SpecCruise == InitCruise /\ [][Next]_vars

\* high-scoring games with and without a bottom-10 team: scores on both sides of 110
MaxCapTeams(label) ==
    {[NewTeam(label, p, a, 150) EXCEPT !.netRank = n] :
        p \in {100000, 150000}, a \in {70000, 150000}, n \in {undefined, 100, 356, 363}}

InitMaxCap ==
    \/ InitWith(MaxCapTeams("A"), MaxCapTeams("B"), {EmptyObject, AtLocation("home")})
    \/ InitWith({Minimal("A"), NoPpg("A")}, {Minimal("B")}, {NullContext, EmptyObject})

SpecMaxCap == InitMaxCap /\ [][Next]_vars

\* low scoring averages and low points allowed, down to 0, with the stages that lower
\* a score (losing streak, elite defense, conference game, injuries)
LowTeams(label) ==
    {[NewTeam(label, p, a, r) EXCEPT !.lossStreak = l, !.firstHalfPPG = h] :
        p \in {0, 20000, 75000}, a \in {0, 70000}, r \in {1, 150},
        l \in {undefined, 5}, h \in {undefined, 12000}}

InitLow ==
    \/ InitWith(LowTeams("A"), LowTeams("B"),
                {EmptyObject, NewContext("away", TRUE, 1, 1200, TRUE, TRUE, TRUE)})
    \/ InitWith({Minimal("A"), NoPpg("A")}, {Minimal("B")}, {NullContext, EmptyObject})

SpecLow == InitLow /\ [][Next]_vars

-----------------------------------------------------------------------------
(* Properties *)

\* the stage has been executed by the current call
Done(stage) == \E i \in 1..Len(stages) : stages[i] = stage

\* the profile has a label, numeric ppg, pointsAllowed and defenseRank, ppg in [0,150]
\* and defenseRank in [1,363]
HasRequiredFields(t) ==
    /\ t.present
    /\ t.team \notin {noLabel, ""}
    /\ IsNumber(t.ppg) /\ IsNumber(t.pointsAllowed) /\ IsNumber(t.defenseRank)
    /\ t.ppg >= 0 /\ t.ppg <= 150000
    /\ t.defenseRank >= 1 /\ t.defenseRank <= 363

Bottom10(t) == Ge(t.netRank, 356)

\* C1: in every returned result the fullGame scores are the rounded running scores,
\* total is their sum and margin is their absolute difference.
C1_TotalAndMargin ==
    pc = "returned" =>
        /\ result.team1.fullGame = team1Score /\ result.team2.fullGame = team2Score
        /\ result.total = result.team1.fullGame + result.team2.fullGame
        /\ result.margin = IF result.team1.fullGame >= result.team2.fullGame
                              THEN result.team1.fullGame - result.team2.fullGame
                              ELSE result.team2.fullGame - result.team1.fullGame

\* a result in which team2 has the higher score, so that the difference is negative
C1_Witness ==
    pc = "returned" /\ result.team2.fullGame > result.team1.fullGame /\ result.margin > 0

\* C2: in every returned result exactly one of team1.isWinner and team2.isWinner is true.
C2_ExactlyOneWinner ==
    pc = "returned" => (result.team1.isWinner # result.team2.isWinner)

\* C3: a call with a missing, non-numeric or out-of-range required field never gets
\* past validation: no stage is executed, no result is produced and the call ends with
\* an error; profiles whose required fields are present and in range, bounds included,
\* pass validation (a call that fails for them has executed stages already).
C3_ValidationRejects ==
    /\ ~(HasRequiredFields(team1) /\ HasRequiredFields(team2)) =>
            /\ pc \in {"validate", "catch", "threw"}
            /\ stages = <<>>
            /\ result = NoResult
            /\ (pc = "threw" => thrown # "")
            /\ (pc # "threw" => ENABLED Next)
    /\ (HasRequiredFields(team1) /\ HasRequiredFields(team2)) =>
            /\ pc = "validate" => ValidationError(team1, team2) = ""
            /\ pc \in {"catch", "threw"} => stages # <<>>

\* team1 is on the accepted bounds and team2's defense rank is one past the bound
C3_Witness ==
    /\ pc = "threw"
    /\ team1.ppg = 150000 /\ team1.defenseRank = 363 /\ HasRequiredFields(team1)
    /\ team2.defenseRank = 364

C5_NoLogOnValidationFailure ==
    (pc = "threw" /\ ~(HasRequiredFields(team1) /\ HasRequiredFields(team2))) =>
        /\ console = <<>>
        /\ thrown # ""

\* C6: a second call with the same arguments ends as the first did, with the same
\* result in every field, breakdown included, or with the same error.
C6_SameOutcome ==
    (calls >= 2 /\ pc \in {"returned", "threw"}) =>
        /\ result = firstOutcome.result
        /\ thrown = firstOutcome.thrown

\* a second call that returned a result with a nonzero extreme-mismatch delta
C6_Witness ==
    /\ calls = 2 /\ pc = "returned"
    /\ result.calculations.extremeMismatch.team1 # 0
    /\ result.calculations.cruiseControl = 0

\* C7: when both defense ranks lie in [111,180], each team's defense-stage delta is its
\* plain matrix lookup [own offense tier][opponent defense tier]: the correction is 0.
C7_MiddleTierNoCorrection ==
    (/\ Done("defense")
     /\ team1.defenseRank >= 111 /\ team1.defenseRank <= 180
     /\ team2.defenseRank >= 111 /\ team2.defenseRank <= 180) =>
        /\ calculations.defense.team1 = DefenseMatrix[classifyOffense(team1)]["Average"]
        /\ calculations.defense.team2 = DefenseMatrix[classifyOffense(team2)]["Average"]

\* defense ranks 150 and 150, a Poor offense against an Elite one
C7_Witness ==
    /\ Done("defense")
    /\ team1.defenseRank = 150 /\ team2.defenseRank = 150
    /\ calculations.defense.team1 = -7000
    /\ calculations.defense.team2 = 1000

\* C8: when a team's overall-strength rank is >= 356, the cruise-control stage records
\* a penalty of 0 and changes no score, and the elite-cap stage changes no score.
C8_Bottom10Bypass ==
    [][(Bottom10(team1) \/ Bottom10(team2)) =>
            /\ (pc = "cruiseControl" =>
                    /\ calculations'.cruiseControl = 0
                    /\ team1Score' = team1Score /\ team2Score' = team2Score)
            /\ (pc = "eliteCaps" =>
                    /\ team1Score' = team1Score /\ team2Score' = team2Score)]_vars

\* a bottom-10 game past the cap stage, with a margin of 30 or more and a score the
\* elite cap would have lowered
C8_Witness ==
    /\ pc = "contextual"
    /\ Bottom10(team1) \/ Bottom10(team2)
    /\ preliminaryMargin >= 30000
    /\ applyEliteCaps(team1Score, team1, team2) < team1Score

\* C9: a team whose overall-strength rank is >= 356 has a running score of at least 48
\* from the floor stage on, and a fullGame score of at least 48 in the returned result.
C9_Bottom10Floor ==
    /\ (Done("floor") /\ ~Done("round")) =>
            /\ (Bottom10(team1) => team1Score >= 48000)
            /\ (Bottom10(team2) => team2Score >= 48000)
    /\ pc = "returned" =>
            /\ (Bottom10(team1) => result.team1.fullGame >= 48)
            /\ (Bottom10(team2) => result.team2.fullGame >= 48)

\* a team ranked exactly 356 whose stage contributions sum to less than 48 and whose
\* returned score is 48
C9_Witness ==
    /\ pc = "returned"
    /\ team1.netRank = 356
    /\ PreliminaryScore(calculations, "team1") + calculations.cruiseControl
         + calculations.contextual.team1 + extremeMismatch.adjustments.team1 < 48000
    /\ result.team1.fullGame = 48

\* C10: the close-game stage adds the bonus if and only if the margin before it is
\* under 5: 3.85 to the home side and 3.15 to the away side, or 3.5 each when team1 is
\* neither home nor away; otherwise it leaves both scores as they are.
C10_CloseGameBonus ==
    [][pc = "closeGame" =>
          LET margin == Abs(team1Score - team2Score)
              location == Context.team1Location
          IN  IF margin < 5000
                THEN /\ team1Score' - team1Score =
                            (IF location = "home" THEN 3850 ELSE IF location = "away" THEN 3150 ELSE 3500)
                     /\ team2Score' - team2Score =
                            (IF location = "home" THEN 3150 ELSE IF location = "away" THEN 3850 ELSE 3500)
                     /\ (team1Score' - team1Score) + (team2Score' - team2Score) = 7000
                ELSE team1Score' = team1Score /\ team2Score' = team2Score]_vars

\* team1 at home, a margin under 5 before the stage and the stage executed
C10_Witness ==
    /\ pc = "round"
    /\ Context.team1Location = "home"
    /\ marginBeforeCloseBonus > 0 /\ marginBeforeCloseBonus < 5000
    /\ Abs(team1Score - team2Score) = marginBeforeCloseBonus + 700

\* C11: in the scenario (A at home, B's defense rank 355) A is the winner and both
\* fullGame scores lie in [40,120]; and for every defense rank of B from 355 to 363,
\* A's fullGame score is at least its score at every smaller defense rank of B.
C11_ScenarioFavorite ==
    (pc = "returned" /\ team1 = ScenarioA /\ team2.defenseRank >= 355 /\ team2 = ScenarioB(team2.defenseRank)) =>
        /\ result.winner = "A" /\ result.team1.isWinner /\ ~result.team2.isWinner
        /\ result.team1.fullGame >= 40 /\ result.team1.fullGame <= 120
        /\ result.team2.fullGame >= 40 /\ result.team2.fullGame <= 120
        /\ result.team1.fullGame = PredictedScores(team1, team2, Context)[1]
        /\ \A r \in 1..(team2.defenseRank - 1) :
              result.team1.fullGame >= PredictedScores(team1, ScenarioB(r), Context)[1]

\* the scenario itself: 105 to 64, and a lower score of A against a better defense
C11_Witness ==
    /\ pc = "returned" /\ team1 = ScenarioA /\ team2 = ScenarioB(355)
    /\ result.team1.fullGame = 105 /\ result.team2.fullGame = 64
    /\ PredictedScores(team1, ScenarioB(320), Context)[1] = 105
    /\ PredictedScores(team1, ScenarioB(30), Context)[1] = 86

\* C12: with no long travel and no injury, the contextual delta of each team is the
\* rest component: -4 when daysRest is 0, -1.5 when it is 1, 0 when it is 2, 3 or
\* absent, +1.5 when it is 4 to 7 and +2.5 when it is 8 or more.
C12_RestComponent ==
    (/\ Done("contextual")
     /\ ~Ge(Context.travelDistance, 1000)
     /\ ~Context.missingTopScorer /\ ~Context.missingPointGuard /\ ~Context.missingRolePlayer) =>
        LET d == Context.daysRest
            rest == IF d = undefined THEN 0
                    ELSE IF d = 0 THEN -4000
                    ELSE IF d = 1 THEN -1500
                    ELSE IF d \in {2, 3} THEN 0
                    ELSE IF d >= 4 /\ d <= 7 THEN 1500
                    ELSE 2500
        IN  /\ calculations.contextual.team1 = rest
            /\ calculations.contextual.team2 = rest

\* C13: when the elite caps are not skipped, the cap stage leaves a team that averages
\* 85 or more with min(score, cap): cap 90 against a defense ranked 300 or worse, 74
\* against a defense ranked 50 or better, 82.5 otherwise.
C13_EliteCap ==
    [][(pc = "eliteCaps" /\ ~extremeMismatch.skipEliteCaps) =>
          LET cap(rank) == IF rank >= 300 THEN 90000 ELSE IF rank <= 50 THEN 74000 ELSE 82500
          IN  /\ team1.ppg >= 85000 => team1Score' = Min(team1Score, cap(team2.defenseRank))
              /\ team2.ppg >= 85000 => team2Score' = Min(team2Score, cap(team1.defenseRank))]_vars

\* C14: whenever a team's overall-strength rank is >= 356 (one team or both) and the
\* ranks differ, the extreme-mismatch deltas (no losing streak, so rule (a) alone) are
\* +12.5 for the better-ranked team and -12.5 for the other, and the floor 48 is recorded.
C14_Bottom10Delta ==
    LET net1 == OrElse(team1.netRank, 150)
        net2 == OrElse(team2.netRank, 150)
    IN  (/\ Done("extremeCheck")
         /\ net1 >= 356 \/ net2 >= 356
         /\ net1 # net2
         /\ ~Ge(team1.lossStreak, 3) /\ ~Ge(team2.lossStreak, 3)) =>
            /\ extremeMismatch.adjustments.team1 = (IF net1 < net2 THEN 12500 ELSE -12500)
            /\ extremeMismatch.adjustments.team2 = (IF net2 < net1 THEN 12500 ELSE -12500)
            /\ extremeMismatch.applyFloor /\ extremeMismatch.floorValue = 48000

\* the sum of the contributions the returned breakdown records for team t, the
\* cruise-control penalty counted for the team that led after the conference stage
RecordedSum(calc, t) ==
    LET other == IF t = "team1" THEN "team2" ELSE "team1"
        pre(u) == calc.base[u] + calc.pace[u] + calc.form[u] + calc.defense[u] + calc.location[u]
                  + calc.conference \div 2
        leading == IF t = "team1" THEN pre(t) > pre(other) ELSE ~(pre(other) > pre(t))
    IN  pre(t) + (IF leading THEN calc.cruiseControl ELSE 0) + calc.contextual[t] + calc.extremeMismatch[t]

\* C15: in every returned result each team's fullGame is the rounding of the sum of
\* the contributions recorded for it in the breakdown.
C15_BreakdownSums ==
    pc = "returned" =>
        /\ result.team1.fullGame = MathRound(RecordedSum(result.calculations, "team1"))
        /\ result.team2.fullGame = MathRound(RecordedSum(result.calculations, "team2"))

\* the order in which lines 53-199 execute the stages
StageOrder ==
    <<"base", "pace", "form", "defense", "location", "conference", "preliminary", "extremeCheck",
      "cruiseControl", "eliteCaps", "contextual", "extremeApply", "floor", "maxCap", "closeGame",
      "round", "firstHalf", "return">>

\* C16: for every input the stages run in one fixed order (the override flags after
\* the conference adjustment, then cruise control, elite caps, contextual deltas, the
\* stored extreme-mismatch deltas, the floor, the 110 cap, the close-game bonus,
\* rounding); the cruise-control tier comes from the margin of the scores after the
\* conference stage, without the extreme-mismatch deltas; and the returned scores are
\* the composition of the stages in that order.
C16_FixedOrder ==
    LET p1 == PreliminaryScore(calculations, "team1")
        p2 == PreliminaryScore(calculations, "team2")
    IN  /\ Len(stages) <= Len(StageOrder)
        /\ \A i \in 1..Len(stages) : stages[i] = StageOrder[i]
        /\ Done("cruiseControl") =>
              /\ preliminaryMargin = Abs(p1 - p2)
              /\ calculations.cruiseControl =
                    (IF extremeMismatch.skipCruiseControl THEN 0 ELSE calculateCruiseControl(Abs(p1 - p2), 0))
        /\ pc = "returned" =>
              <<result.team1.fullGame, result.team2.fullGame>> = PredictedScores(team1, team2, Context)

\* a statement game (+10 stored for team1) with cruise control active, where the margin
\* with the stored deltas would have fallen in a higher tier
C16_Witness ==
    /\ pc = "returned"
    /\ ~extremeMismatch.skipCruiseControl
    /\ extremeMismatch.adjustments.team1 = 10000
    /\ calculations.cruiseControl # 0
    /\ calculateCruiseControl(preliminaryMargin + 10000, 0) # calculations.cruiseControl

\* C17: the two pace deltas sum to 0.65 times the midpoint of the matrix entry for the
\* differential category (from the gap of the possession midpoints 78 / 73.5 / 69.5 /
\* 66 / 63) and the number of defenses ranked 110 or better; the team with the strictly
\* higher possession midpoint gets 60% of that and the other team 40%.
C17_PaceSplit ==
    Done("pace") =>
        LET poss(ppg) == IF ppg >= 85000 THEN 78000 ELSE IF ppg >= 78000 THEN 73500
                         ELSE IF ppg >= 70000 THEN 69500 ELSE IF ppg >= 65000 THEN 66000 ELSE 63000
            gap == Abs(poss(team1.ppg) - poss(team2.ppg))
            diff == IF gap < 6000 THEN "Neutral" ELSE IF gap < 11000 THEN "Moderate"
                    ELSE IF gap < 16000 THEN "Major" ELSE "Extreme"
            good == (IF team1.defenseRank <= 110 THEN 1 ELSE 0) + (IF team2.defenseRank <= 110 THEN 1 ELSE 0)
            combined == IF good = 2 THEN "BothGood" ELSE IF good = 1 THEN "OneGood" ELSE "BothPoor"
            range == PaceMatrix[diff][combined]
            sum == calculations.pace.team1 + calculations.pace.team2
        IN  /\ 200 * sum = 65 * (range.min + range.max) * Pt
            /\ poss(team1.ppg) > poss(team2.ppg) =>
                  10 * calculations.pace.team1 = 6 * sum /\ 10 * calculations.pace.team2 = 4 * sum
            /\ poss(team2.ppg) > poss(team1.ppg) =>
                  10 * calculations.pace.team2 = 6 * sum /\ 10 * calculations.pace.team1 = 4 * sum

\* team1 in the fastest bucket, team2 in the slowest (gap 15, Major), one defense
\* ranked exactly 110: 3.9 split 2.34 / 1.56
C17_Witness ==
    /\ Done("pace")
    /\ team1.ppg = 85000 /\ team2.ppg = 64900
    /\ team1.defenseRank = 110 /\ team2.defenseRank = 111
    /\ calculations.pace = [team1 |-> 2340, team2 |-> 1560]

\* C18: the defense-stage delta of a team (matrix lookup plus half of the mutual
\* strong-defense correction) never falls when the opponent's defense rank grows, the
\* team's own rank being fixed; every matrix value lies in [-22.5, +5], -22.5 being Poor
\* offense against Elite defense and +5 the largest value of the Elite-offense row.
C18_DefenseMonotone ==
    pc = "location" =>
          /\ \A r \in (team2.defenseRank + 1)..363 :
                MatrixLookup(classifyOffense(team1), getDefRank(r))
                    + TwoGoodDefensesPenalty(team1.defenseRank, r) \div 2 >= calculations.defense.team1
          /\ \A r \in (team1.defenseRank + 1)..363 :
                MatrixLookup(classifyOffense(team2), getDefRank(r))
                    + TwoGoodDefensesPenalty(r, team2.defenseRank) \div 2 >= calculations.defense.team2
          /\ \A off \in DOMAIN DefenseMatrix : \A def \in DOMAIN DefenseMatrix[off] :
                /\ DefenseMatrix[off][def] >= -22500 /\ DefenseMatrix[off][def] <= 5000
                /\ DefenseMatrix[off][def] = -22500 <=> (off = "Poor" /\ def = "Elite")
                /\ DefenseMatrix[off][def] = 5000 => off = "Elite"
          /\ \E def \in DOMAIN DefenseMatrix["Elite"] : DefenseMatrix["Elite"][def] = 5000

\* own rank 71 and an Elite offense: against rank 70 the delta is -9 - 2 = -11, against
\* rank 71 the correction grows to -3 but the delta rises to -5 - 3 = -8
C18_Witness ==
    /\ pc = "location"
    /\ team1.defenseRank = 71 /\ team2.defenseRank = 70
    /\ classifyOffense(team1) = "Elite"
    /\ calculations.defense.team1 = -11000
    /\ calculateDefenseQualityAdjustment(team1, [team2 EXCEPT !.defenseRank = 71]).team1 = -8000

\* C19: for a profile with at most one nonzero streak and a trailing 5-game average
\* supplied (0 included), the form delta is the streak effect (win >= 5: +3.5, >= 3:
\* +2.5, >= 1: +1; loss >= 5: -9, >= 3: -6, >= 1: -1.5; else 0) plus the trend effect
\* (+2.5 if last5PPG - ppg >= 5, -2.5 if it is <= -5, else 0).
C19_FormDelta ==
    (/\ Done("form")
     /\ team1.last5PPG # undefined
     /\ ~(Truthy(team1.winStreak) /\ Truthy(team1.lossStreak))) =>
        LET w == OrElse(team1.winStreak, 0)
            l == OrElse(team1.lossStreak, 0)
            streak == IF w >= 5 THEN 3500 ELSE IF w >= 3 THEN 2500 ELSE IF w >= 1 THEN 1000
                      ELSE IF l >= 5 THEN -9000 ELSE IF l >= 3 THEN -6000 ELSE IF l >= 1 THEN -1500
                      ELSE 0
            trend == IF team1.last5PPG - team1.ppg >= 5000 THEN 2500
                     ELSE IF team1.last5PPG - team1.ppg <= -5000 THEN -2500
                     ELSE 0
        IN  calculations.form.team1 = streak + trend

C21_StatementGame ==
    Done("extremeCheck") =>
        LET net1 == OrElse(team1.netRank, 150)
            net2 == OrElse(team2.netRank, 150)
            bonus1 == extremeMismatch.adjustments.team1 - Bottom10Adjustments(net1, net2).team1
                      - NetGapAdjustments(net1, net2).team1
            bonus2 == extremeMismatch.adjustments.team2 - Bottom10Adjustments(net1, net2).team2
                      - NetGapAdjustments(net1, net2).team2
        IN  /\ bonus1 = (IF Ge(team1.lossStreak, 3) /\ net2 >= 314 /\ net1 < net2 THEN 10000 ELSE 0)
            /\ bonus2 = (IF Ge(team2.lossStreak, 3) /\ net1 >= 314 /\ net2 < net1 THEN 10000 ELSE 0)
            /\ ~(bonus1 # 0 /\ bonus2 # 0)

\* a team on a losing streak of 3, ranked 100, against rank 314: rule (b) stores 8.75
\* and the statement game 10 more; the opponent, on a streak of 4, gets no bonus
C21_Witness ==
    /\ Done("extremeCheck")
    /\ team1.lossStreak = 3 /\ team1.netRank = 100
    /\ team2.lossStreak = 4 /\ team2.netRank = 314
    /\ extremeMismatch.adjustments = [team1 |-> 18750, team2 |-> -8750]

C23_TieNoWinner ==
    (pc = "returned" /\ team1.team # team2.team) =>
        /\ result.team1.fullGame = result.team2.fullGame =>
              /\ ~result.team1.isWinner /\ ~result.team2.isWinner
              /\ result.winner \notin {team1.team, team2.team}
        /\ result.winner = team1.team => result.team1.isWinner
        /\ result.winner = team2.team => result.team2.isWinner

\* preliminary scores from 0 to 150, the range of the scoring averages
ScoreSamples == {0, 40000, 48000, 75000, 82500, 110000, 150000}

\* C24: the flags and deltas of the extreme-mismatch check depend on the preliminary
\* scores it is called with: for the ranks and loss streaks of the call, other
\* preliminary scores give flags or deltas different from the ones the call got.
C24_DependsOnScores ==
    Done("extremeCheck") =>
        \E score1 \in ScoreSamples, score2 \in ScoreSamples :
            calculateExtremeMismatch(team1, team2, score1, score2) # extremeMismatch

\* the game context of the same game seen from the other team: home and away exchanged
Mirror(context) ==
    [context EXCEPT !.team1Location = IF @ = "home" THEN "away" ELSE IF @ = "away" THEN "home" ELSE @]

\* C25: the call with the two teams exchanged and team1Location mirrored gives every
\* team the fullGame, firstHalf and isWinner values it has in this call's result.
C25_SwapSymmetry ==
    pc = "returned" =>
        LET swapped == PredictedScores(team2, team1, Mirror(Context))
            half == calculateFirstHalf(swapped[1], swapped[2], team2, team1)
        IN  /\ swapped[1] = result.team2.fullGame /\ swapped[2] = result.team1.fullGame
            /\ half.team1 = result.team2.firstHalf /\ half.team2 = result.team1.firstHalf
            /\ (swapped[1] > swapped[2]) = result.team2.isWinner
            /\ (swapped[2] > swapped[1]) = result.team1.isWinner

\* C26: when the max-cap flag is set, neither running score exceeds 110 once the cap
\* stage has run, and after the close-game stage no score exceeds 110 plus the largest
\* close-game share.
C26_MaxCapBound ==
    (extremeMismatch.applyMaxCap /\ Done("maxCap")) =>
        /\ pc = "closeGame" => team1Score <= 110000 /\ team2Score <= 110000
        /\ pc = "round" => team1Score <= 110000 + 3850 /\ team2Score <= 110000 + 3850

\* C27: in every result returned for profiles with non-negative pointsAllowed, both
\* fullGame scores and both firstHalf scores are >= 0 and each team's firstHalf is at
\* most its fullGame.
C27_NonNegativeScores ==
    (pc = "returned" /\ team1.pointsAllowed >= 0 /\ team2.pointsAllowed >= 0) =>
        \A t \in {"team1", "team2"} :
            /\ result[t].fullGame >= 0
            /\ result[t].firstHalf >= 0
            /\ result[t].firstHalf <= result[t].fullGame

\* C28: when the cruise-control stage applies a penalty, the team that led before the
\* stage still leads after it, by at least 9.5.
C28_CruiseKeepsLead ==
    [][(pc = "cruiseControl" /\ calculations'.cruiseControl # 0) =>
          /\ team1Score > team2Score => team1Score' - team2Score' >= 9500
          /\ team2Score > team1Score => team2Score' - team1Score' >= 9500
          /\ team1Score # team2Score]_vars

\* a lead of 15 to 15.5 cut to less than 10
C28_Witness ==
    /\ pc = "eliteCaps"
    /\ calculations.cruiseControl = -5500
    /\ preliminaryMargin < 15500
    /\ PreliminaryScore(calculations, "team1") > PreliminaryScore(calculations, "team2")
    /\ team1Score - team2Score >= 9500 /\ team1Score - team2Score < 10000

\* C29: for every pair of accepted scoring averages the possession midpoints differ
\* by at most 15, so the pace differential category is never "Extreme", and the two
\* pace deltas of a prediction never add up to more than 5.85.
C29_NeverExtreme ==
    /\ pc = "pace" =>
          \A p \in ValidPpgs :
              LET gap == Abs(getPaceCategory(p).poss - getPaceCategory(team2.ppg).poss)
              IN  gap <= 15 * Pt /\ PaceDiffCategory(gap) # "Extreme"
    /\ Done("pace") =>
          /\ PaceDiffCategory(Abs(getPaceCategory(team1.ppg).poss
                                  - getPaceCategory(team2.ppg).poss)) # "Extreme"
          /\ calculations.pace.team1 + calculations.pace.team2 <= 5850

\* the slowest bucket against the fastest, both defenses ranked past 110: gap 15,
\* "Major", the largest total 5.85
C29_Witness ==
    /\ Done("pace")
    /\ team1.ppg = 64900 /\ team2.ppg = 85000
    /\ team1.defenseRank = 111 /\ team2.defenseRank = 111
    /\ Abs(getPaceCategory(team1.ppg).poss - getPaceCategory(team2.ppg).poss) = 15 * Pt
    /\ calculations.pace.team1 + calculations.pace.team2 = 5850

\* C30: the contextual stage records the same delta for team1 and for team2 and adds
\* it to both running scores, so the difference of the two scores is the same after
\* the stage as before it.
C30_ContextualSameDelta ==
    [][(pc = "contextual" /\ pc' = "extremeApply") =>
          /\ calculations'.contextual.team1 = calculations'.contextual.team2
          /\ team1Score' = team1Score + calculations'.contextual.team1
          /\ team2Score' = team2Score + calculations'.contextual.team2
          /\ team1Score' - team2Score' = team1Score - team2Score]_vars

\* one day of rest, a trip of 1000 and all three players missing: -16 for both teams,
\* whose scores differ
C30_Witness ==
    /\ pc = "extremeApply"
    /\ calculations.contextual = [team1 |-> -16000, team2 |-> -16000]
    /\ team1Score # team2Score

=============================================================================
